---- MODULE Spec2Model ----
(***************************************************************************)
(* Model of the script execution engine of automation-browser             *)
(* (src/python-server/script_executor.py): the locator resolvers, the      *)
(* action handlers, the frame handler, the orchestrator loop of            *)
(* ScriptExecutor.execute_script and the session handle.                   *)
(*                                                                         *)
(* The browser backend (Selenium) is an oracle: what a wait, a click or a  *)
(* frame switch does is part of the input, drawn from small sets.  Python  *)
(* strings that the code inspects character by character (strategy names,  *)
(* which it upper-cases) are sequences of one-character strings.           *)
(***************************************************************************)
EXTENDS Naturals, Sequences, FiniteSets, TLC

\* ------------------------------------------------------------------ bounds
MaxActions == 2   \* longest script
MaxLocators == 2  \* longest locator fallback chain
MaxNested == 3    \* longest nested sequence of an execute_in_frame action
MaxFrameScript == 2    \* longest script of the frame scenarios
MaxDepth == 2     \* deepest frame context followed
MaxSessions == 2  \* most backend sessions live at once
MaxServerScript == 1   \* longest script sent to the server
MaxMessages == 2  \* most messages the clients send
MaxWindows == 2   \* most windows open when a handler is called
MaxHeadless == 2  \* most headless arguments added to one executor's options

\* ------------------------------------------------------- strategy names
\* str.upper() on the ASCII letters the strategy names are written in.
LowerLetters == <<"a","b","c","d","e","f","g","h","i","j","k","l","m",
                  "n","o","p","q","r","s","t","u","v","w","x","y","z">>
UpperLetters == <<"A","B","C","D","E","F","G","H","I","J","K","L","M",
                  "N","O","P","Q","R","S","T","U","V","W","X","Y","Z">>
UpperTable ==
  [c \in {LowerLetters[k] : k \in 1..Len(LowerLetters)} |->
     UpperLetters[CHOOSE k \in 1..Len(LowerLetters) : LowerLetters[k] = c]]
UpperChar(c) == IF c \in DOMAIN UpperTable THEN UpperTable[c] ELSE c
upper(s) == [k \in 1..Len(s) |-> UpperChar(s[k])]

\* The spellings used below.
s_id == <<"i","d">>
s_ID == <<"I","D">>
s_Id == <<"I","d">>
s_xpath == <<"x","p","a","t","h">>
s_XPATH == <<"X","P","A","T","H">>
s_css == <<"c","s","s">>
s_CSS == <<"C","S","S">>
s_CSS_SELECTOR == <<"C","S","S","_","S","E","L","E","C","T","O","R">>
s_name == <<"n","a","m","e">>
s_NAME == <<"N","A","M","E">>
s_class_name == <<"c","l","a","s","s","_","n","a","m","e">>
s_CLASS_NAME == <<"C","L","A","S","S","_","N","A","M","E">>
s_link_text == <<"l","i","n","k","_","t","e","x","t">>
s_LINK_TEXT == <<"L","I","N","K","_","T","E","X","T">>
s_partial_link_text ==
  <<"p","a","r","t","i","a","l","_","l","i","n","k","_","t","e","x","t">>
s_PARTIAL_LINK_TEXT ==
  <<"P","A","R","T","I","A","L","_","L","I","N","K","_","T","E","X","T">>
s_tag_name == <<"t","a","g","_","n","a","m","e">>
s_TAG_NAME == <<"T","A","G","_","N","A","M","E">>

\* The Locator enumeration of the script format, as written in the scripts.
LocatorEnum == {s_id, s_xpath, s_css, s_name, s_class_name, s_link_text,
                s_partial_link_text, s_tag_name}
\* The same names in other letter cases.
LocatorEnumAnyCase ==
  LocatorEnum \cup {upper(s) : s \in LocatorEnum} \cup {s_Id}

None == "None"

\* The dictionary of _get_by_from_string, looked up with the upper-cased name.
_get_by_from_string(locator_type_str) ==
  LET u == upper(locator_type_str) IN
  CASE u = s_ID -> "By.ID"
    [] u = s_XPATH -> "By.XPATH"
    [] u = s_CSS_SELECTOR -> "By.CSS_SELECTOR"
    [] u = s_CLASS_NAME -> "By.CLASS_NAME"
    [] u = s_NAME -> "By.NAME"
    [] u = s_LINK_TEXT -> "By.LINK_TEXT"
    [] u = s_PARTIAL_LINK_TEXT -> "By.PARTIAL_LINK_TEXT"
    [] u = s_TAG_NAME -> "By.TAG_NAME"
    [] OTHER -> None

\* The inline dictionary of _handle_click, looked up the same way.
click_locator_type(locator_type_str) ==
  LET u == upper(locator_type_str) IN
  CASE u = s_ID -> "By.ID"
    [] u = s_XPATH -> "By.XPATH"
    [] u = s_CSS_SELECTOR -> "By.CSS_SELECTOR"
    [] u = s_CLASS_NAME -> "By.CLASS_NAME"
    [] u = s_NAME -> "By.NAME"
    [] u = s_LINK_TEXT -> "By.LINK_TEXT"
    [] u = s_PARTIAL_LINK_TEXT -> "By.PARTIAL_LINK_TEXT"
    [] u = s_TAG_NAME -> "By.TAG_NAME"
    [] OTHER -> None

\* The if/elif chain of _find_element: exact comparison, no case folding;
\* a name that matches no branch selects nothing.
find_element_by(locator_type) ==
  CASE locator_type = s_id -> "By.ID"
    [] locator_type = s_xpath -> "By.XPATH"
    [] locator_type = s_css -> "By.CSS_SELECTOR"
    [] locator_type = s_name -> "By.NAME"
    [] locator_type = s_class_name -> "By.CLASS_NAME"
    [] locator_type = s_link_text -> "By.LINK_TEXT"
    [] locator_type = s_partial_link_text -> "By.PARTIAL_LINK_TEXT"
    [] locator_type = s_tag_name -> "By.TAG_NAME"
    [] OTHER -> None

\* ------------------------------------------------------------ locators
\* A locator entry with what the backend does for it: cond is the outcome
\* of WebDriverWait.until on its wait condition ("ok": the element is
\* returned, "timeout": TimeoutException, "error": another exception), and
\* click the outcome of the pointer action on the element found.
LocatorNames == {s_id, s_ID, s_css, s_CSS_SELECTOR}
Locator == [name : LocatorNames, cond : {"ok", "timeout", "error"},
            click : {"ok", "error"}]
\* click is only read when cond = "ok".
Locators == {l \in Locator : l.cond # "ok" => l.click = "ok"}

SeqsUpTo(S, n) == UNION {[1..k -> S] : k \in 0..n}

\* Outcomes of a resolver or handler: what it returns or raises, the
\* backend calls it made (in order) and, for a resolver, the locator
\* through which the returned element was found.
Call(op, by, loc) == [op |-> op, by |-> by, loc |-> loc]
Op(op) == Call(op, None, 0)
\* The call of the handler of the i-th nested action of a frame step, with
\* the frame context it is made in.
HandlerCall(handler, i, frame) ==
  [op |-> "handler", by |-> handler, loc |-> i, frame |-> frame]
Returned(value, via, log) ==
  [kind |-> "return", value |-> value, via |-> via, err |-> None, log |-> log]
Raised(err, log) ==
  [kind |-> "raise", value |-> None, via |-> 0, err |-> err, log |-> log]
\* bool(result) of a handler's return value.
bool(value) == value \in {"True", "element", "bytes", "list", "dict"}

\* Error classes: ValueError raised for a bad parameter, the not-found
\* error, a timeout, any other backend exception.
ParameterError == "ParameterError"
NoHandler == "NoHandlerError"
NotFound == "NoSuchElementException"
Timeout == "TimeoutException"
BackendError == "WebDriverException"

\* _find_element: the for loop from locator i on.
RECURSIVE find_element_from(_, _, _)
find_element_from(locators, i, log) ==
  IF i > Len(locators) THEN Raised(NotFound, log)
  ELSE LET by == find_element_by(locators[i].name) IN
    IF by = None THEN find_element_from(locators, i + 1, log)
    ELSE LET log2 == Append(log, Call("wait_visible", by, i)) IN
      CASE locators[i].cond = "ok" -> Returned("element", i, log2)
        [] locators[i].cond = "timeout" ->
             find_element_from(locators, i + 1, log2)
        [] OTHER -> Raised(BackendError, log2)

_find_element(action) == find_element_from(action.locators, 1, <<>>)

\* _find_element_with_wait: the for loop from locator i on.
RECURSIVE find_with_wait_from(_, _, _)
find_with_wait_from(locators, i, log) ==
  IF i > Len(locators) THEN Raised(NotFound, log)
  ELSE LET by == _get_by_from_string(locators[i].name) IN
    IF by = None THEN find_with_wait_from(locators, i + 1, log)
    ELSE LET log2 == Append(log, Call("wait_condition", by, i)) IN
      CASE locators[i].cond = "ok" -> Returned("element", i, log2)
        [] locators[i].cond = "timeout" ->
             find_with_wait_from(locators, i + 1, log2)
        [] OTHER -> Raised(BackendError, log2)

_find_element_with_wait(action) ==
  IF action.locators = <<>> THEN Raised(ParameterError, <<>>)
  ELSE find_with_wait_from(action.locators, 1, <<>>)


\* ------------------------------------------------------------- handlers
\* An action of a script, with what the backend does when its handler
\* runs.  Fields read by the code: type, continue_on_error, take_screenshot,
\* locators, x/y (xy: both supplied), frame_locator, actions (nested), target.
\* params_ok: the other parameters the handler requires are present and
\* valid (url, script, frame_reference, a numeric time, a selection
\* criterion).  Backend oracle: out is the outcome of the handler's own
\* backend operation, shot_out the outcome of get_screenshot_as_png.
Unset == "unset"

\* _handle_navigate
_handle_navigate(action, frame) ==
  IF ~action.params_ok THEN Raised(ParameterError, <<>>)
  ELSE CASE action.out = "ok" ->
              Returned("True", 0, <<Op("get"), Op("wait_ready_state")>>)
         [] action.out = "timeout" ->
              Raised(Timeout, <<Op("get"), Op("wait_ready_state")>>)
         [] OTHER -> Raised(BackendError, <<Op("get")>>)

\* _handle_wait: float(time), then a sleep.
_handle_wait(action, frame) ==
  IF ~action.params_ok THEN Raised(ParameterError, <<>>)
  ELSE Returned("True", 0, <<>>)

\* _handle_execute_js
_handle_execute_js(action, frame) ==
  IF ~action.params_ok THEN Raised(ParameterError, <<>>)
  ELSE IF action.out = "ok" THEN Returned("True", 0, <<Op("execute_script")>>)
  ELSE Raised(BackendError, <<Op("execute_script")>>)

\* The windows of the session.  When the handler is called the backend
\* lists action.windows handles and action.current is the position of the
\* current window among them; a window that opens during the wait is
\* listed at position action.opened.
WindowHandle(k) == "w" \o ToString(k)
window_handles(n) == [k \in 1..n |-> WindowHandle(k)]
window_handles_after(action) ==
  LET before == window_handles(action.windows) IN
  SubSeq(before, 1, action.opened - 1)
    \o <<WindowHandle(action.windows + 1)>>
    \o SubSeq(before, action.opened, action.windows)

\* [h for h in self.driver.window_handles if h != original_window]
OtherThan(handles, original_window) ==
  LET keep(h) == h # original_window IN SelectSeq(handles, keep)

\* _handle_switch_window: a timeout of the wait for a new window is
\* reported by returning False, not by raising.  The window switched to is
\* the first listed handle that is not the current window.
_handle_switch_window(action, frame) ==
  CASE action.target = "new" ->
         LET log == <<Op("current_window_handle"), Op("wait_new_window")>>
             original_window == window_handles(action.windows)[action.current]
             new_window_handles ==
               OtherThan(window_handles_after(action), original_window) IN
         CASE action.out = "ok" ->
                IF new_window_handles # <<>>
                THEN Returned("True", 0,
                       Append(log, Call("switch_to_window",
                                        new_window_handles[1], 0)))
                ELSE Returned("False", 0, log)
           [] action.out = "timeout" -> Returned("False", 0, log)
           [] OTHER -> Raised(BackendError, log)
    [] action.target = "original" ->
         IF action.out = "ok"
         THEN Returned("True", 0,
                <<Op("window_handles"),
                  Call("switch_to_window",
                       window_handles(action.windows)[1], 0)>>)
         ELSE Raised(BackendError, <<Op("window_handles")>>)
    [] OTHER -> Returned("False", 0, <<>>)

\* _handle_switch_to_frame: descends one frame.
_handle_switch_to_frame(action, frame) ==
  IF ~action.params_ok THEN [frame |-> frame] @@ Raised(ParameterError, <<>>)
  ELSE IF action.out = "ok"
  THEN [frame |-> frame + 1] @@ Returned("True", 0, <<Op("switch_to_frame")>>)
  ELSE [frame |-> frame] @@ Raised(BackendError, <<Op("switch_to_frame")>>)

\* _handle_switch_default_content
_handle_switch_default_content(action, frame) ==
  IF action.out = "ok"
  THEN [frame |-> 0] @@ Returned("True", 0, <<Op("default_content")>>)
  ELSE [frame |-> frame] @@ Raised(BackendError, <<Op("default_content")>>)

\* _handle_click: the locator loop from locator i on; element is 0 for
\* Python's None, else the locator through which an element was found.
RECURSIVE click_from(_, _, _, _)
click_from(action, i, element, log) ==
  IF i > Len(action.locators)
  THEN IF element = 0 /\ action.xy
       THEN LET log2 == Append(log, Op("click_coordinates")) IN
            IF action.out = "ok" THEN Returned("True", 0, log2)
            ELSE Raised(BackendError, log2)
       ELSE IF element = 0 THEN Raised(NotFound, log)
       ELSE Returned("False", element, log)
  ELSE LET by == click_locator_type(action.locators[i].name) IN
    IF by = None THEN click_from(action, i + 1, element, log)
    ELSE LET log2 == Append(log, Call("wait_clickable", by, i)) IN
      IF action.locators[i].cond = "ok"
      THEN LET log3 == Append(log2, Call("click", by, i)) IN
           IF action.locators[i].click = "ok" THEN Returned("True", i, log3)
           ELSE click_from(action, i + 1, i, log3)
      ELSE click_from(action, i + 1, element, log2)

_handle_click(action, frame) == click_from(action, 1, 0, <<>>)

\* The handlers that resolve their element with _find_element and then
\* perform one operation on it: _handle_input (send_keys),
\* _handle_move_to_element, _handle_double_click, _handle_right_click,
\* _handle_scroll_to, _handle_hover.
find_then(action, op) ==
  LET r == _find_element(action) IN
  IF r.kind = "raise" THEN r
  ELSE LET log2 == Append(r.log, Call(op, None, r.via)) IN
       IF action.out = "ok" THEN Returned("True", r.via, log2)
       ELSE Raised(BackendError, log2)

_handle_input(action, frame) == find_then(action, "send_keys")
_handle_move_to_element(action, frame) == find_then(action, "move_to_element")
_handle_double_click(action, frame) == find_then(action, "double_click")
_handle_right_click(action, frame) == find_then(action, "context_click")
_handle_scroll_to(action, frame) == find_then(action, "scroll_into_view")
_handle_hover(action, frame) == find_then(action, "move_to_element")

\* _handle_select: the element is resolved before the selection criterion
\* is looked at.
_handle_select(action, frame) ==
  LET r == _find_element(action) IN
  IF r.kind = "raise" THEN r
  ELSE LET log2 == Append(r.log, Call("Select", None, r.via)) IN
       IF ~action.params_ok THEN Raised(ParameterError, log2)
       ELSE IF action.out = "ok"
       THEN Returned("True", r.via, Append(log2, Call("select_option", None, r.via)))
       ELSE Raised(BackendError, Append(log2, Call("select_option", None, r.via)))

\* _handle_wait_for_element, _visible, _clickable
wait_for(action) ==
  LET r == _find_element_with_wait(action) IN
  IF r.kind = "raise" THEN r ELSE Returned("True", r.via, r.log)

_handle_wait_for_element(action, frame) == wait_for(action)
_handle_wait_for_element_visible(action, frame) == wait_for(action)
_handle_wait_for_element_clickable(action, frame) == wait_for(action)

\* The invisibility wait run over the fallback chain, as the other
\* wait_for_element handlers are.
wait_for_element_invisible_chain(action, frame) ==
  LET found == _find_element_with_wait(action) IN
  IF found.kind = "raise" THEN found
  ELSE Returned("True", found.via, found.log)

\* _handle_wait_for_element_invisible: the first locator only.
_handle_wait_for_element_invisible(action, frame) ==
  IF action.locators = <<>> THEN Raised(ParameterError, <<>>)
  ELSE LET by == _get_by_from_string(action.locators[1].name) IN
    IF by = None THEN Raised(ParameterError, <<>>)
    ELSE LET log == <<Call("wait_invisible", by, 1)>> IN
      CASE action.locators[1].cond = "ok" -> Returned("True", 1, log)
        [] action.locators[1].cond = "timeout" -> Raised(Timeout, log)
        [] OTHER -> Raised(BackendError, log)

\* The handlers that validate their parameters, perform backend operations
\* and return True (refresh, back, forward, the window-geometry, cookie
\* write, key, alert and wait_for_* handlers).
other_handler(action, op) ==
  IF ~action.params_ok THEN Raised(ParameterError, <<>>)
  ELSE CASE action.out = "ok" -> Returned("True", 0, <<Op(op)>>)
         [] action.out = "timeout" -> Raised(Timeout, <<Op(op)>>)
         [] OTHER -> Raised(BackendError, <<Op(op)>>)

\* _handle_wait_for_jquery: two waits, no return statement.
_handle_wait_for_jquery(action, frame) ==
  CASE action.out = "ok" ->
         Returned(None, 0, <<Op("wait_jquery"), Op("wait_ajax")>>)
    [] action.out = "timeout" -> Raised(Timeout, <<Op("wait_jquery")>>)
    [] OTHER -> Raised(BackendError, <<Op("wait_jquery")>>)

\* _handle_get_cookies returns the backend's list, which may be empty.
_handle_get_cookies(action, frame) ==
  CASE action.out = "ok" -> Returned("list", 0, <<Op("get_cookies")>>)
    [] action.out = "empty" -> Returned("[]", 0, <<Op("get_cookies")>>)
    [] OTHER -> Raised(BackendError, <<Op("get_cookies")>>)

\* _handle_get_cookie returns the backend's cookie, None when there is none.
_handle_get_cookie(action, frame) ==
  IF ~action.params_ok THEN Raised(ParameterError, <<>>)
  ELSE CASE action.out = "ok" -> Returned("dict", 0, <<Op("get_cookie")>>)
         [] action.out = "empty" -> Returned(None, 0, <<Op("get_cookie")>>)
         [] OTHER -> Raised(BackendError, <<Op("get_cookie")>>)

\* _handle_take_screenshot returns the image bytes.
_handle_take_screenshot(action, frame) ==
  IF action.out = "ok" THEN Returned("bytes", 0, <<Op("get_screenshot_as_png")>>)
  ELSE Raised(BackendError, <<Op("get_screenshot_as_png")>>)

\* The dictionary of _get_action_handler: action type -> handler, None for
\* a type that is not a key.
_get_action_handler(action_type) ==
  CASE action_type \in {"navigate", "go_to_url"} -> "_handle_navigate"
    [] action_type = "click" -> "_handle_click"
    [] action_type \in {"input", "type"} -> "_handle_input"
    [] action_type = "select" -> "_handle_select"
    [] action_type \in {"wait", "sleep"} -> "_handle_wait"
    [] action_type \in {"execute_js", "js"} -> "_handle_execute_js"
    [] action_type = "switch_to_window" -> "_handle_switch_window"
    [] action_type = "switch_to_default_content" -> "_handle_switch_default_content"
    [] action_type = "move_to_element" -> "_handle_move_to_element"
    [] action_type = "double_click" -> "_handle_double_click"
    [] action_type = "right_click" -> "_handle_right_click"
    [] action_type = "scroll_to" -> "_handle_scroll_to"
    [] action_type = "hover" -> "_handle_hover"
    [] action_type = "switch_to_frame" -> "_handle_switch_to_frame"
    [] action_type = "take_screenshot" -> "_handle_take_screenshot"
    [] action_type = "get_cookies" -> "_handle_get_cookies"
    [] action_type = "get_cookie" -> "_handle_get_cookie"
    [] action_type = "execute_in_frame" -> "_handle_execute_in_frame"
    [] action_type = "wait_for_element" -> "_handle_wait_for_element"
    [] action_type = "wait_for_element_visible" -> "_handle_wait_for_element_visible"
    [] action_type = "wait_for_element_clickable" -> "_handle_wait_for_element_clickable"
    [] action_type = "wait_for_element_invisible" -> "_handle_wait_for_element_invisible"
    [] action_type = "wait_for_jquery" -> "_handle_wait_for_jquery"
    [] action_type \in {"key_down", "key_up", "type_credential", "tab",
         "click_coordinates", "drag_and_drop", "refresh", "back", "forward",
         "accept_alert", "dismiss_alert", "switch_to_parent_frame",
         "execute_async_js", "set_window_size", "maximize_window",
         "minimize_window", "fullscreen_window", "save_screenshot",
         "set_cookie", "delete_cookie", "delete_all_cookies",
         "add_cookie", "wait_for_page_load", "wait_for_ajax",
         "wait_for_angular", "wait_for_js_condition", "wait_for_url",
         "wait_for_url_contains", "wait_for_title", "wait_for_title_contains",
         "wait_for_alert", "wait_for_alert_text",
         "wait_for_alert_text_contains", "wait_for_alert_not_present"} ->
           "_handle_" \o action_type
    [] OTHER -> None

\* An outcome with the frame context the handler leaves: its own when the
\* handler switches frames, else the one it was called in.
WithFrame(r, frame) == r @@ [frame |-> frame]

\* 'type' as the strategy name seen by _find_element when it unpacks the
\* frame_locator mapping {'type': ..., 'value': ...} as a (name, value) pair:
\* iterating a mapping yields its keys.
s_type == <<"t","y","p","e">>

\* handler(action): the call of the handler the dictionary returned.
\* _handle_execute_in_frame runs its nested actions through the same call.
RECURSIVE call_handler(_, _, _)
RECURSIVE run_nested(_, _, _, _)

\* run_nested with a nested exception logged and swallowed: the loop goes on
\* and the handler returns.
RECURSIVE run_nested_swallowing(_, _, _, _)
run_nested_swallowing(actions, i, fr, log) ==
  IF i > Len(actions) THEN WithFrame(Returned(None, 0, log), fr)
  ELSE LET handler == _get_action_handler(actions[i].type) IN
    IF handler = None THEN run_nested_swallowing(actions, i + 1, fr, log)
    ELSE LET r == call_handler(handler, actions[i], fr) IN
      run_nested_swallowing(actions, i + 1, r.frame,
                            log \o <<HandlerCall(handler, i, fr)>> \o r.log)

\* _handle_execute_in_frame: the loop over the nested actions from action i
\* on, inside the try block.
run_nested(actions, i, frame, log) ==
  IF i > Len(actions) THEN WithFrame(Returned(None, 0, log), frame)
  ELSE LET handler == _get_action_handler(actions[i].type) IN
    IF handler = None THEN run_nested(actions, i + 1, frame, log)
    ELSE LET r == call_handler(handler, actions[i], frame)
             log2 == log \o <<HandlerCall(handler, i, frame)>> \o r.log IN
      IF r.kind = "raise" THEN WithFrame(Raised(r.err, log2), r.frame)
      ELSE run_nested(actions, i + 1, r.frame, log2)

\* frame_finally as a restoration on the success path only.
frame_restore_on_success(r) ==
  IF r.kind = "raise" THEN r
  ELSE [r EXCEPT !.log = Append(r.log, Op("default_content")), !.frame = 0]

\* _handle_execute_in_frame: the finally clause.
frame_finally(r) ==
  [r EXCEPT !.log = Append(r.log, Op("default_content")), !.frame = 0]

\* _handle_execute_in_frame
_handle_execute_in_frame(action, frame) ==
  IF action.frame_locator = None \/ action.actions = <<>>
  THEN WithFrame(Returned(None, 0, <<>>), frame)
  ELSE IF action.frame_locator = "index"
  THEN IF action.out = "ok"
       THEN frame_finally(run_nested(action.actions, 1, frame + 1,
                                     <<Op("switch_to_frame")>>))
       ELSE frame_finally(WithFrame(Raised(BackendError, <<Op("switch_to_frame")>>), frame))
  ELSE LET found == _find_element([locators |->
                      <<[name |-> s_type, cond |-> action.out, click |-> "ok"]>>]) IN
       IF found.kind = "raise" THEN frame_finally(WithFrame(found, frame))
       ELSE frame_finally(run_nested(action.actions, 1, frame + 1,
                                     Append(found.log, Op("switch_to_frame"))))

call_handler(handler, action, frame) ==
  WithFrame(
    CASE handler = "_handle_navigate" -> _handle_navigate(action, frame)
      [] handler = "_handle_click" -> _handle_click(action, frame)
      [] handler = "_handle_input" -> _handle_input(action, frame)
      [] handler = "_handle_select" -> _handle_select(action, frame)
      [] handler = "_handle_wait" -> _handle_wait(action, frame)
      [] handler = "_handle_execute_js" -> _handle_execute_js(action, frame)
      [] handler = "_handle_switch_window" -> _handle_switch_window(action, frame)
      [] handler = "_handle_switch_default_content" ->
           _handle_switch_default_content(action, frame)
      [] handler = "_handle_move_to_element" -> _handle_move_to_element(action, frame)
      [] handler = "_handle_double_click" -> _handle_double_click(action, frame)
      [] handler = "_handle_right_click" -> _handle_right_click(action, frame)
      [] handler = "_handle_scroll_to" -> _handle_scroll_to(action, frame)
      [] handler = "_handle_hover" -> _handle_hover(action, frame)
      [] handler = "_handle_switch_to_frame" -> _handle_switch_to_frame(action, frame)
      [] handler = "_handle_take_screenshot" -> _handle_take_screenshot(action, frame)
      [] handler = "_handle_get_cookies" -> _handle_get_cookies(action, frame)
      [] handler = "_handle_get_cookie" -> _handle_get_cookie(action, frame)
      [] handler = "_handle_execute_in_frame" -> _handle_execute_in_frame(action, frame)
      [] handler = "_handle_wait_for_element" -> _handle_wait_for_element(action, frame)
      [] handler = "_handle_wait_for_element_visible" ->
           _handle_wait_for_element_visible(action, frame)
      [] handler = "_handle_wait_for_element_clickable" ->
           _handle_wait_for_element_clickable(action, frame)
      [] handler = "_handle_wait_for_element_invisible" ->
           _handle_wait_for_element_invisible(action, frame)
      [] handler = "_handle_wait_for_jquery" -> _handle_wait_for_jquery(action, frame)
      [] OTHER -> other_handler(action, handler),
    frame)

\* ---------------------------------------------------------------- state
VARIABLES
  driver,    \* self.driver: None or the session handle
  pc,        \* "idle", "running" (inside the for loop of execute_script),
             \* "returned" (a report was returned), "raised" (an exception
             \* propagated to the caller)
  helper,    \* TRUE while the call in progress is the module-level helper
  total,     \* len(script_data['actions'])
  index,     \* the loop's enumerate index: entries fetched so far
  stop,      \* the loop was left by break
  results,   \* the results dictionary of execute_script
  action,    \* the entry processed last
  outcome,   \* what its handler did
  frame,     \* frame context of the session: 0 is the default content
  sessions,  \* handles of the backend sessions that were created and on
             \* which quit was not called
  closes,    \* what the close calls did, for the closes made in a row last
  caller,    \* the entry point called last
  serving,   \* the connection (or "direct") whose automation_script request
             \* handle_automation_script is running, "none" otherwise
  response,  \* what handle_automation_script returned, when it is the
             \* entry point called last
  clients,   \* AutomationServer.clients, the registry
  chrome_options,    \* self.chrome_options of the caller's executor: the
             \* number of '--headless=new' arguments it holds
  headless_session,  \* the session created last runs headless
  conn       \* per connection: the client's side, the server-side handler,
             \* how many messages the client sent, the messages in flight
             \* to the server and the messages the server sent

vars == <<driver, pc, helper, total, index, stop, results, action, outcome,
          frame, sessions, closes, caller, serving, response, clients, conn,
          chrome_options, headless_session>>

\* An action with every key absent but type.
Action(type) ==
  [type |-> type, continue_on_error |-> Unset, take_screenshot |-> FALSE,
   locators |-> <<>>, xy |-> FALSE, frame_locator |-> None, actions |-> <<>>,
   target |-> "new", windows |-> 1, current |-> 1, opened |-> 2,
   params_ok |-> TRUE, out |-> "ok", shot_out |-> "ok"]

NoOutcome == WithFrame(Returned(None, 0, <<>>), 0)

\* results as execute_script initialises it; a key that is absent is None
\* (<<>> for completion_percentage and for a screenshot name).
new_results(n) ==
  [success |-> TRUE, executed_actions |-> 0, total_actions |-> n,
   errors |-> <<>>, screenshots |-> {}, end_time |-> None, actions |-> <<>>,
   error |-> None, completion_percentage |-> <<>>]

\* ------------------------------------------------------------ the session
\* uc.Chrome(...): the handle of a new backend session, one that names no
\* session of live.
RECURSIVE Chrome(_, _)
Chrome(k, live) ==
  IF ToString(k) \in live THEN Chrome(k + 1, live) ELSE ToString(k)

\* The options of an executor, as the number of '--headless=new' arguments
\* among them: none in the default options of a new executor; start_driver
\* adds one to the executor's options when headless is true; the session
\* uc.Chrome(options=...) creates runs headless when the options hold one.
default_chrome_options == 0
add_headless(options, headless) == IF headless THEN options + 1 ELSE options
is_headless(options) == options > 0

\* The options of the executor after start_driver(headless).
options_after_start(options, headless) == add_headless(options, headless)

\* The options start_driver(headless) hands to uc.Chrome.
options_of_start(options, headless) == add_headless(options, headless)

\* start_driver: creates a session and stores its handle over the one held;
\* re-raises what the backend raises ("fail": creating the session raised,
\* "fail_after": set_page_load_timeout raised on the session just stored).
start_driver(how) ==
  LET created == Chrome(1, sessions) IN
  CASE how = "ok" ->
         [driver |-> created, sessions |-> sessions \cup {created}, raised |-> FALSE]
    [] how = "fail_after" ->
         [driver |-> created, sessions |-> sessions \cup {created}, raised |-> TRUE]
    [] OTHER -> [driver |-> driver, sessions |-> sessions, raised |-> TRUE]

\* close without the finally clause: the handle is kept when quit raises.
close_without_finally(held, quit_out) ==
  [driver |-> IF held # None /\ quit_out = "error" THEN held ELSE None,
   quit |-> held # None,
   quit_raised |-> held # None /\ quit_out = "error",
   raised |-> FALSE]

\* close: quit is called on a held handle, what it raises is swallowed,
\* the handle is cleared.  quit: the backend call was made; raised: close
\* itself raised.
close(held, quit_out) ==
  [driver |-> None,
   quit |-> held # None,
   quit_raised |-> held # None /\ quit_out = "error",
   raised |-> FALSE]

QuitOutcomes == {"ok", "error"}

\* close() clearing the handle without the quit call: the session stays.
closed_without_quit(held, live, quit_out) ==
  [driver |-> None, sessions |-> live,
   call |-> [quit |-> FALSE, quit_raised |-> FALSE, raised |-> FALSE]]

\* The executor after close(): the handle, the sessions quit was not called
\* on, and the record of the call.
closed(held, live, quit_out) ==
  LET c == close(held, quit_out) IN
  [driver |-> c.driver, sessions |-> live \ {held},
   call |-> [quit |-> c.quit, quit_raised |-> c.quit_raised, raised |-> c.raised]]

\* A wrapper left without a close.
wrapper_exit_without_close(held, live, quit_out, wrapped) ==
  [driver |-> held, sessions |-> live, closes |-> <<>>]

\* Leaving a wrapper of a script run (wrapped: the call in progress is made
\* through one): __exit__ of the helper's with block and the finally clause
\* of handle_automation_script call close().
wrapper_exit(held, live, quit_out, wrapped) ==
  LET c == closed(held, live, quit_out) IN
  IF wrapped
  THEN [driver |-> c.driver, sessions |-> c.sessions,
        closes |-> <<[quit |-> c.call.quit, raised |-> c.call.raised]>>]
  ELSE [driver |-> held, sessions |-> live, closes |-> <<>>]

\* ------------------------------------------------------- the orchestrator
\* result_returned with a capture that counts: a step whose screenshot
\* capture raised is not successful.
result_returned_shot_fatal(i, a, o) ==
  [index |-> i, type |-> a.type,
   success |-> bool(o.value) /\ ~(a.take_screenshot /\ a.shot_out = "error"),
   end_time |-> "set", error |-> None,
   screenshot |-> IF bool(o.value) /\ a.take_screenshot /\ a.shot_out = "ok"
                  THEN <<"screenshot", i, a.type>> ELSE <<>>]

\* The step's ActionResult after the handler returned: success is
\* bool(result); the screenshot is taken for a successful step that asks
\* for one.
result_returned(i, a, o) ==
  [index |-> i, type |-> a.type, success |-> bool(o.value), end_time |-> "set",
   error |-> None,
   screenshot |-> IF bool(o.value) /\ a.take_screenshot /\ a.shot_out = "ok"
                  THEN <<"screenshot", i, a.type>> ELSE <<>>]

\* The step's ActionResult after the handler (or the handler lookup)
\* raised: the error screenshot is always attempted.
result_raised(i, a, o) ==
  [index |-> i, type |-> a.type, success |-> FALSE, end_time |-> "set",
   error |-> o.err,
   screenshot |-> IF a.shot_out = "ok" THEN <<"error", i, a.type>> ELSE <<>>]

\* append_result without the finally clause: a step that leaves the loop by
\* break is not appended.
append_result_after_try(actions, action_result, leaving) ==
  IF leaving THEN actions ELSE Append(actions, action_result)

\* The finally clause of a step: end_time is set if it is not, and the
\* ActionResult is appended, also when the loop is being left by break.
append_result(actions, action_result, leaving) ==
  Append(actions,
         IF action_result.end_time = None
         THEN [action_result EXCEPT !.end_time = "set"] ELSE action_result)

\* executed_after with the increment under the success test.
executed_after_success_only(executed_actions, o) ==
  IF o.kind = "return" /\ bool(o.value) THEN executed_actions + 1
  ELSE executed_actions

\* executed_actions is incremented on the path on which nothing raised.
executed_after(executed_actions, o) ==
  IF o.kind = "return" THEN executed_actions + 1 ELSE executed_actions

\* errors_after with the enumerate index counted from 0.
errors_after_zero_based(errors, i, a, o) ==
  IF o.kind = "raise"
  THEN Append(errors, [action |-> a.type, error |-> o.err, action_index |-> i - 1])
  ELSE errors

\* The errors list after the step.
errors_after(errors, i, a, o) ==
  IF o.kind = "raise"
  THEN Append(errors, [action |-> a.type, error |-> o.err, action_index |-> i])
  ELSE errors

\* should_break with a default of False: only True lets the loop go on.
should_break_unless_true(a, o) == o.kind = "raise" /\ a.continue_on_error # "True"

\* should_break with a truth test in place of the identity test: every
\* falsy value stops the loop.
should_break_on_falsy(a, o) ==
  o.kind = "raise" /\ a.continue_on_error \in {"False", "0"}

\* action.get('continue_on_error', True) is False, looked at after a raise.
should_break(a, o) == o.kind = "raise" /\ a.continue_on_error = "False"

\* final_success without the update: 'success' keeps its initial value.
final_success_not_updated(res) == res.success

\* 'success' of the final update.
final_success(res) == Len(res.errors) = 0

\* completion_percentage without the test of total_actions.
completion_percentage_unguarded(res) ==
  <<res.executed_actions * 100, res.total_actions>>

\* completion_percentage as the exact quotient <<numerator, denominator>>.
completion_percentage(res) ==
  IF res.total_actions > 0 THEN <<res.executed_actions * 100, res.total_actions>>
  ELSE <<100, 1>>

\* unexpected_error building the report anew: what the earlier steps
\* accumulated is lost.
unexpected_error_from_scratch(res) ==
  [new_results(res.total_actions) EXCEPT
     !.end_time = "set", !.success = FALSE, !.error = "Unexpected error"]

\* The report of the outer except clause.
unexpected_error(res) ==
  [res EXCEPT !.end_time = "set", !.success = FALSE, !.error = "Unexpected error"]

\* ------------------------------------------------- the server's messages
\* str() and int() of a natural number: its decimal digits.
Digits == <<"0", "1", "2", "3", "4", "5", "6", "7", "8", "9">>
RECURSIVE str(_)
str(n) ==
  IF n < 10 THEN <<Digits[n + 1]>>
  ELSE Append(str(n \div 10), Digits[(n % 10) + 1])
RECURSIVE int(_)
int(digits) ==
  IF digits = <<>> THEN 0
  ELSE int(SubSeq(digits, 1, Len(digits) - 1)) * 10
       + (CHOOSE d \in 0..9 : Digits[d + 1] = digits[Len(digits)])

\* A message of a client as JSON text: valid (the text parses), its type,
\* the timestamp of a ping (digits), the action of a chrome_integration
\* request, and the script of an automation_script request: script_ok (the
\* 'script' value is a mapping), sized ('actions' has a length), n (the
\* number of actions).
Message(type) ==
  [valid |-> TRUE, type |-> type, timestamp |-> str(0), action |-> None,
   script_ok |-> TRUE, sized |-> TRUE, n |-> 0]

\* json.loads of a client's text that parses.
json_loads(message) == [message EXCEPT !.timestamp = int(@)]

\* The entries of an errors list as JSON text.
dumps_errors(errors) ==
  [k \in 1..Len(errors) |->
     IF "action_index" \in DOMAIN errors[k]
     THEN [errors[k] EXCEPT !.action_index = str(@)] ELSE errors[k]]

\* json.dumps of a message of the server.
json_dumps(obj) ==
  CASE obj.type = "pong" ->
         [obj EXCEPT !.timestamp = str(@), !.server_time = str(@)]
    [] obj.type = "connection_established" -> [obj EXCEPT !.timestamp = str(@)]
    [] obj.type = "automation_response" ->
         [obj EXCEPT !.details =
            [executed_actions |-> str(obj.details.executed_actions),
             total_actions |-> str(obj.details.total_actions),
             errors |-> dumps_errors(obj.details.errors)]]
    [] OTHER -> obj

\* The timestamp the server puts in its messages.
server_time == 12345

\* The welcome message.
connection_established(c) ==
  [type |-> "connection_established", client_id |-> c, timestamp |-> server_time]

\* The pong carrying server_time in place of the caller's timestamp.
pong_with_server_time(data) ==
  [type |-> "pong", timestamp |-> server_time, server_time |-> server_time]

\* The answer to a ping.
pong(data) ==
  [type |-> "pong", timestamp |-> data.timestamp, server_time |-> server_time]

\* The error message of handle_message: for an unknown type, for text that
\* is not JSON, for an exception of the handling.
error_message(why) == [type |-> "error", message |-> why]

\* handle_chrome_integration: a response for 'start' and for 'stop', None
\* for any other action.
handle_chrome_integration(data) ==
  IF data.action \in {"start", "stop"}
  THEN [type |-> "chrome_response", status |-> "success"]
  ELSE [type |-> None]

\* The response of handle_automation_script to a report.
automation_response(res) ==
  [type |-> "automation_response",
   status |-> IF res.success THEN "success" ELSE "error",
   details |-> [executed_actions |-> res.executed_actions,
                total_actions |-> res.total_actions,
                errors |-> res.errors],
   ran |-> "returned"]

\* The response of its except clause; n is len(script_data.get('actions', [])).
automation_error(n, e) ==
  [type |-> "automation_response", status |-> "error",
   details |-> [executed_actions |-> 0, total_actions |-> n,
                errors |-> <<[error |-> e]>>],
   ran |-> "raised"]

NoResponse == [type |-> None]

Conns == {"c1", "c2"}

\* A connection nobody opened yet.
NoConn ==
  [client |-> "absent", handler |-> "none", sent |-> 0, inbox |-> <<>>,
   outbox |-> <<>>]

register_client(registry, websocket) == registry \cup {websocket}
unregister_client(registry, websocket) == registry \ {websocket}

\* websocket.send(json.dumps(obj)) on connection c.
send(cs, c, obj) == [cs EXCEPT ![c].outbox = Append(@, json_dumps(obj))]

\* ------------------------------------------------------ leaving a call
\* What follows when self.execute_script has returned its report (raised
\* FALSE) or raised: nothing for a plain call; the helper leaves its with
\* block, which closes; handle_automation_script builds its response,
\* closes in its finally clause and returns, and handle_message sends what
\* it got: the response, or its error message when the call raised.
Leave(held, live, res, raised, n, quit_out) ==
  LET left == wrapper_exit(held, live, quit_out, helper \/ serving # "none")
      answer == IF raised THEN NoResponse ELSE automation_response(res) IN
  /\ driver' = left.driver
  /\ sessions' = left.sessions
  /\ closes' = left.closes
  /\ helper' = FALSE
  /\ serving' = "none"
  /\ response' = IF serving # "none" THEN answer ELSE response
  /\ conn' = IF serving \in Conns
             THEN send(conn, serving,
                       IF raised THEN error_message("Message handling error")
                       ELSE answer)
             ELSE conn
  /\ UNCHANGED <<clients, chrome_options, headless_session>>

\* ScriptExecutor.execute_script up to the loop.  The session is started
\* when none is held; then the results are built.  Both happen before the
\* try block.  sized: len() accepts the script's 'actions' value.  An input
\* that is not read is given one value: n when the call raises, how when no
\* session is started.
\* self.start_driver() is called without headless; the helper and
\* handle_automation_script start a new executor, here with the default
\* headless = False.
BeginRun(how, sized, n, viaHelper) ==
  LET started == IF driver = None \/ viaHelper THEN start_driver(how)
                 ELSE [driver |-> driver, sessions |-> sessions, raised |-> FALSE]
      fails == started.raised \/ ~sized IN
  /\ (fails => n = 0)
  /\ (driver # None /\ ~viaHelper => how = "ok")
  /\ pc' = IF fails THEN "raised" ELSE "running"
  /\ total' = IF fails THEN 0 ELSE n
  /\ index' = 0
  /\ stop' = FALSE
  /\ results' = new_results(IF fails THEN 0 ELSE n)
  /\ action' = Action(None)
  /\ outcome' = NoOutcome
  /\ frame' = IF driver = None \/ viaHelper THEN 0 ELSE frame
  /\ caller' = IF viaHelper THEN "helper" ELSE "execute_script"
  /\ \E quit_out \in QuitOutcomes :
       LET left == wrapper_exit(started.driver, started.sessions, quit_out,
                                viaHelper /\ fails) IN
       /\ driver' = left.driver
       /\ sessions' = left.sessions
       /\ closes' = left.closes
  /\ helper' = (viaHelper /\ ~fails)
  /\ response' = NoResponse
  /\ headless_session' =
       IF started.sessions # sessions
       THEN is_headless(options_of_start(
              IF viaHelper THEN default_chrome_options ELSE chrome_options,
              FALSE))
       ELSE headless_session
  /\ UNCHANGED <<serving, clients, conn, chrome_options>>

StartOutcomes == {"ok", "fail", "fail_after"}

\* executor.execute_script(script_data)
execute_script(maxn) ==
  /\ pc # "running"
  /\ \E how \in StartOutcomes, sized \in BOOLEAN, n \in 0..maxn :
       BeginRun(how, sized, n, FALSE)

\* execute_script(script_data, chrome_options, headless): a new executor,
\* start_driver, executor.execute_script, close on leaving the with block.
execute_script_helper(maxn) ==
  /\ pc # "running"
  /\ driver = None
  /\ \E how \in StartOutcomes, sized \in BOOLEAN, n \in 0..maxn :
       BeginRun(how, sized, n, TRUE)

\* executor.start_driver(headless) by the caller.  The headless argument
\* is added before the session is created, whatever becomes of the start.
StartDriver ==
  /\ pc # "running"
  /\ Cardinality(sessions) < MaxSessions
  /\ \E how \in StartOutcomes, headless \in BOOLEAN :
       LET started == start_driver(how) IN
       /\ headless => chrome_options < MaxHeadless
       /\ driver' = started.driver
       /\ sessions' = started.sessions
       /\ chrome_options' = options_after_start(chrome_options, headless)
       /\ headless_session' =
            IF started.sessions # sessions
            THEN is_headless(options_of_start(chrome_options, headless))
            ELSE headless_session
  /\ closes' = <<>>
  /\ caller' = "start_driver"
  /\ UNCHANGED <<pc, helper, total, index, stop, results, action, outcome,
                 frame, serving, response, clients, conn>>

\* executor.close() by the caller.
Close ==
  /\ pc # "running"
  /\ \E quit_out \in QuitOutcomes :
       LET c == closed(driver, sessions, quit_out) IN
       /\ driver' = c.driver
       /\ sessions' = c.sessions
       /\ closes' = IF closes = <<>> THEN <<c.call>>
                    ELSE <<closes[Len(closes)], c.call>>
  /\ caller' = "close"
  /\ UNCHANGED <<pc, helper, total, index, stop, results, action, outcome,
                 frame, serving, response, clients, conn, chrome_options,
                 headless_session>>

\* AutomationServer.handle_automation_script(data) for the request message
\* taken from connection c ("direct": called without a connection; cs: the
\* connections once the message is taken), up to the loop of
\* execute_script: a new executor, start_driver, and execute_script's
\* results.  A script that is not a mapping raises before
\* the try block.  When start_driver raises, the except clause builds the
\* response, which takes len() of the actions; the finally clause closes.
\* When len() raises in execute_script it raises again in the except clause.
handle_automation_script(c, data, how, cs) ==
  LET started == start_driver(how)
      raises == ~data.script_ok \/ ~data.sized
      goes == ~raises /\ ~started.raised IN
  /\ pc' = IF goes THEN "running"
           ELSE IF data.script_ok /\ ~started.raised THEN "raised" ELSE "idle"
  /\ total' = IF goes THEN data.n ELSE 0
  /\ index' = 0
  /\ stop' = FALSE
  /\ results' = new_results(IF goes THEN data.n ELSE 0)
  /\ action' = Action(None)
  /\ outcome' = NoOutcome
  /\ frame' = 0
  /\ helper' = FALSE
  /\ caller' = "handle_automation_script"
  /\ IF goes
     THEN /\ driver' = started.driver
          /\ sessions' = started.sessions
          /\ closes' = <<>>
          /\ serving' = c
          /\ response' = NoResponse
          /\ conn' = cs
     ELSE \E quit_out \in QuitOutcomes :
            LET left == IF data.script_ok
                        THEN wrapper_exit(started.driver, started.sessions,
                                          quit_out, TRUE)
                        ELSE wrapper_exit(driver, sessions, quit_out, FALSE)
                answer == IF raises THEN NoResponse
                          ELSE automation_error(data.n, "start_driver") IN
            /\ driver' = left.driver
            /\ sessions' = left.sessions
            /\ closes' = left.closes
            /\ serving' = "none"
            /\ response' = answer
            /\ conn' = IF c \in Conns
                       THEN send(cs, c,
                                 IF raises
                                 THEN error_message("Message handling error")
                                 ELSE answer)
                       ELSE cs
  /\ headless_session' =
       IF started.sessions # sessions /\ data.script_ok
       THEN is_headless(options_of_start(default_chrome_options, FALSE))
       ELSE headless_session
  /\ UNCHANGED <<clients, chrome_options>>

\* dispatch passing over a type without handler, as the frame handler does.
dispatch_skipping_unknown(a, fr) ==
  LET handler == _get_action_handler(a.type) IN
  IF handler = None THEN WithFrame(Returned(None, 0, <<>>), fr)
  ELSE call_handler(handler, a, fr)

\* The handler lookup and the handler call of a step.
dispatch(a, fr) ==
  LET handler == _get_action_handler(a.type) IN
  IF handler = None THEN WithFrame(Raised(NoHandler, <<>>), fr)
  ELSE call_handler(handler, a, fr)

\* The step's ActionResult.
action_result_of(i, a, o) ==
  IF o.kind = "return" THEN result_returned(i, a, o) ELSE result_raised(i, a, o)

\* The for loop has a next entry.
InLoop == pc = "running" /\ ~stop /\ index < total

\* One iteration of the for loop on an entry that is a mapping.
Step(a) ==
  /\ InLoop
  /\ \E o \in {dispatch(a, frame)} :
       \E action_result \in {action_result_of(index + 1, a, o)} :
        /\ o.frame <= MaxDepth
        /\ results' = [results EXCEPT
             !.executed_actions = executed_after(@, o),
             !.errors = errors_after(@, index + 1, a, o),
             !.screenshots = IF action_result.screenshot = <<>> THEN @
                             ELSE @ \cup {action_result.screenshot},
             !.actions = append_result(@, action_result, should_break(a, o))]
        /\ stop' = should_break(a, o)
        /\ index' = index + 1
        /\ action' = a
        /\ outcome' = o
        /\ frame' = o.frame
  /\ UNCHANGED <<driver, pc, helper, total, sessions, closes, caller, serving,
                 response, clients, conn, chrome_options, headless_session>>

\* One iteration on an entry that is not a mapping: action.get raises
\* before the step's try block, the outer except clause returns the report.
StepNotMapping ==
  /\ InLoop
  /\ index' = index + 1
  /\ results' = unexpected_error(results)
  /\ pc' = "returned"
  /\ \E quit_out \in QuitOutcomes :
       Leave(driver, sessions, unexpected_error(results), FALSE, total, quit_out)
  /\ UNCHANGED <<total, stop, action, outcome, frame, caller>>

\* The report after the final update.
final_update(res) ==
  [res EXCEPT
     !.end_time = "set",
     !.success = final_success(res),
     !.completion_percentage = completion_percentage(res)]

\* After the loop: the final update, and the return.
Finish ==
  /\ pc = "running" /\ (stop \/ index = total)
  /\ results' = final_update(results)
  /\ pc' = "returned"
  /\ \E quit_out \in QuitOutcomes :
       Leave(driver, sessions, final_update(results), FALSE, total, quit_out)
  /\ UNCHANGED <<total, index, stop, action, outcome, frame, caller>>

\* ------------------------------------------------------------ the server
\* A new connection c: start_server's handler registers the client and
\* sends the welcome message, then calls handle_message, which registers
\* the client and sends the welcome message too before it enters its
\* message loop.  welcome: "ok", or which of the two sends found the
\* connection closed.  A failure of the first send ends the handler in its
\* except clause, which closes the connection; a failure of the second is
\* caught in handle_message, whose finally clause unregisters the client.
Connect(c, welcome) ==
  /\ serving = "none"
  /\ conn[c].client = "absent"
  /\ clients' = CASE welcome = "closed_second" ->
                       unregister_client(register_client(clients, c), c)
                  [] OTHER -> register_client(clients, c)
  /\ conn' =
       CASE welcome = "ok" ->
              [send(send(conn, c, connection_established(c)),
                    c, connection_established(c))
                 EXCEPT ![c].client = "open", ![c].handler = "loop"]
         [] welcome = "closed_second" ->
              [send(conn, c, connection_established(c))
                 EXCEPT ![c].client = "closed", ![c].handler = "done"]
         [] OTHER -> [conn EXCEPT ![c].client = "closed", ![c].handler = "done"]
  /\ UNCHANGED <<driver, pc, helper, total, index, stop, results, action,
                 outcome, frame, sessions, closes, caller, serving, response,
                 chrome_options, headless_session>>

\* The client of an open connection sends a message.
ClientSend(c, message) ==
  /\ conn[c].client = "open"
  /\ conn' = [conn EXCEPT ![c].inbox = Append(@, message), ![c].sent = @ + 1]
  /\ UNCHANGED <<driver, pc, helper, total, index, stop, results, action,
                 outcome, frame, sessions, closes, caller, serving, response,
                 clients, chrome_options, headless_session>>

\* The client closes a connection on which every message it sent was
\* answered; the message loop ends and the finally clause of
\* handle_message unregisters the client.  What was sent on the connection
\* goes with it.
Disconnect(c) ==
  /\ serving = "none"
  /\ conn[c].client = "open" /\ conn[c].inbox = <<>>
  /\ conn' = [conn EXCEPT ![c] = [NoConn EXCEPT !.client = "closed",
                                               !.handler = "done",
                                               !.sent = conn[c].sent]]
  /\ clients' = unregister_client(clients, c)
  /\ UNCHANGED <<driver, pc, helper, total, index, stop, results, action,
                 outcome, frame, sessions, closes, caller, serving, response,
                 chrome_options, headless_session>>

\* The response handle_message computes for a message other than an
\* automation_script request.
response_to(message) ==
  IF ~message.valid THEN error_message("Invalid JSON received")
  ELSE LET data == json_loads(message) IN
    CASE data.type = "chrome_integration" -> handle_chrome_integration(data)
      [] data.type = "ping" -> pong(data)
      [] OTHER -> error_message("Unknown message type")

\* One iteration of the message loop of handle_message on connection c,
\* for a message that is not an automation_script request: the response,
\* if there is one, is sent.
handle_message(c) ==
  /\ serving = "none"
  /\ conn[c].handler = "loop" /\ conn[c].inbox # <<>>
  /\ LET message == Head(conn[c].inbox)
         took == [conn EXCEPT ![c].inbox = Tail(@)]
         reply == response_to(message) IN
     /\ ~(message.valid /\ message.type = "automation_script")
     /\ conn' = IF reply.type = None THEN took
                ELSE send(took, c, reply)
  /\ UNCHANGED <<driver, pc, helper, total, index, stop, results, action,
                 outcome, frame, sessions, closes, caller, serving, response,
                 clients, chrome_options, headless_session>>

\* One iteration of the message loop on an automation_script request: the
\* script run starts; the event loop runs nothing else until it is over.
handle_script_message(c) ==
  /\ serving = "none"
  /\ conn[c].handler = "loop" /\ conn[c].inbox # <<>>
  /\ LET message == Head(conn[c].inbox) IN
     /\ message.valid /\ message.type = "automation_script"
     /\ \E how \in StartOutcomes :
          handle_automation_script(
            c, json_loads(message), how,
            [conn EXCEPT ![c].inbox = Tail(@)])

InitExecutor ==
  /\ pc = "idle"
  /\ helper = FALSE
  /\ total = 0
  /\ index = 0
  /\ stop = FALSE
  /\ results = new_results(0)
  /\ outcome = NoOutcome
  /\ frame = 0
  /\ closes = <<>>
  /\ chrome_options = default_chrome_options
  /\ headless_session = FALSE
  /\ caller = "none"
  /\ serving = "none"
  /\ response = NoResponse
  /\ clients = {}
  /\ conn = [c \in Conns |-> NoConn]

Init ==
  /\ driver = None
  /\ sessions = {}
  /\ action = Action(None)
  /\ InitExecutor

\* --------------------------------------------------------------- inputs
\* continue_on_error: absent, False, or a value that is falsy but is not
\* False; take_screenshot with the outcome of the capture.
Flags == {Unset, "False", "0"}
Shots == {<<FALSE, "ok">>, <<TRUE, "ok">>, <<TRUE, "error">>}
WithFlags(S) ==
  {[a EXCEPT !.continue_on_error = c, !.take_screenshot = t[1], !.shot_out = t[2]] :
     a \in S, c \in Flags, t \in Shots}

\* Scripts of the orchestrator scenarios.
MainKinds ==
  {Action("wait"),
   [Action("navigate") EXCEPT !.params_ok = FALSE],
   [Action("navigate") EXCEPT !.out = "error"],
   Action("switch_to_window"),
   [Action("switch_to_window") EXCEPT !.out = "timeout"],
   Action("js"),
   Action("teleport"),
   Action(None),
   [Action("execute_in_frame") EXCEPT !.frame_locator = "index",
                                      !.actions = <<Action("wait")>>]}
MainActions == WithFlags(MainKinds)

\* Scripts of the frame scenarios.
NestedActions ==
  {Action("wait"), [Action("navigate") EXCEPT !.out = "error"], Action("teleport")}
InFrame(fl, o, na) ==
  [Action("execute_in_frame") EXCEPT !.frame_locator = fl, !.out = o, !.actions = na]
FrameKinds ==
  {Action("wait"), Action("switch_to_frame"),
   [Action("switch_to_frame") EXCEPT !.out = "error"],
   InFrame(None, "ok", <<Action("wait")>>),
   InFrame("index", "error", <<Action("wait")>>),
   InFrame("element", "ok", <<Action("wait")>>),
   InFrame("index", "ok",
           <<InFrame("index", "ok", <<Action("wait")>>), Action("wait")>>)}
  \cup {InFrame("index", "ok", na) : na \in SeqsUpTo(NestedActions, MaxNested)}
FrameActions ==
  {[a EXCEPT !.continue_on_error = c] : a \in FrameKinds, c \in {Unset, "False"}}

\* Scripts of the resolver scenarios.
\* xy and out are read by click only when the coordinate fallback is
\* reached, out by the _find_element handlers only after the element.
ResolveKinds ==
  {Action("click"), [Action("click") EXCEPT !.xy = TRUE],
   [Action("click") EXCEPT !.xy = TRUE, !.out = "error"],
   Action("input"), [Action("input") EXCEPT !.out = "error"],
   Action("hover"),
   Action("select"), [Action("select") EXCEPT !.params_ok = FALSE],
   Action("wait_for_element"), Action("wait_for_element_clickable"),
   Action("wait_for_element_invisible")}

\* Window switches: every list of open windows, current window and place
\* of the new window, and the wait that times out.
WindowKinds ==
  {[Action("switch_to_window") EXCEPT
      !.target = t, !.windows = n, !.current = c, !.opened = p, !.out = o] :
     t \in {"new", "original"}, n \in 1..MaxWindows, c \in 1..MaxWindows,
     p \in 1..(MaxWindows + 1), o \in {"ok", "timeout"}}

\* Requests handed to handle_automation_script: the script is a mapping.
ScriptRequests(maxn) ==
  {[Message("automation_script") EXCEPT !.n = n] : n \in 0..maxn}
  \cup {[Message("automation_script") EXCEPT !.sized = FALSE]}

\* Scripts run by the server: a step that succeeds, and one that fails and
\* stops the run.
ServerActions ==
  {Action("wait"),
   [Action("navigate") EXCEPT !.out = "error", !.continue_on_error = "False"]}

\* Messages of the clients.
Ping(timestamp) == [Message("ping") EXCEPT !.timestamp = str(timestamp)]
ClientMessages ==
  {[Message("garbage") EXCEPT !.valid = FALSE],
   Ping(7), Ping(server_time),
   Message("teleport"),
   [Message("chrome_integration") EXCEPT !.action = "start"],
   [Message("chrome_integration") EXCEPT !.action = "restart"],
   [Message("automation_script") EXCEPT !.script_ok = FALSE]}
  \cup ScriptRequests(MaxServerScript)

StepMain == InLoop /\ \E a \in MainActions : Step(a)
StepFrame == InLoop /\ \E a \in FrameActions : Step(a)
StepServer == InLoop /\ \E a \in ServerActions : Step(a)

Next ==
  \/ execute_script(MaxActions)
  \/ execute_script_helper(MaxActions)
  \/ StepMain
  \/ StepNotMapping
  \/ Finish
Spec == Init /\ [][Next]_vars

NextFrame ==
  \/ execute_script(MaxFrameScript)
  \/ StepFrame
  \/ Finish
SpecFrame == Init /\ [][NextFrame]_vars

\* The resolver scenarios: a handler applied to one action, in the default
\* content of a started session.
InitResolve ==
  /\ driver = Chrome(1, {})
  /\ sessions = {Chrome(1, {})}
  /\ \/ \E a \in ResolveKinds, k \in 0..MaxLocators :
          \E ls \in [1..k -> Locators] : action = [a EXCEPT !.locators = ls]
     \/ /\ action \in WindowKinds
        /\ action.current <= action.windows
        /\ action.opened <= action.windows + 1
  /\ InitExecutor

\* handler(action) for the handler of the action's type.
ApplyHandler ==
  /\ pc = "idle"
  /\ outcome' = dispatch(action, frame)
  /\ pc' = "applied"
  /\ UNCHANGED <<driver, helper, total, index, stop, results, action, frame,
                 sessions, closes, caller, serving, response, clients, conn,
                 chrome_options, headless_session>>

NextResolve == ApplyHandler
SpecResolve == InitResolve /\ [][NextResolve]_vars

\* handle_automation_script called with a request; its executor is a new
\* one.
handle_automation_script_direct ==
  /\ pc # "running"
  /\ driver = None
  /\ \E data \in ScriptRequests(MaxServerScript), how \in StartOutcomes :
       handle_automation_script("direct", json_loads(data), how, conn)

\* The session scenarios: start_driver, execute_script and close called in
\* any order on one executor, and the two wrappers of a script run.
NextSession ==
  \/ StartDriver
  \/ execute_script(MaxServerScript)
  \/ execute_script_helper(MaxServerScript)
  \/ handle_automation_script_direct
  \/ Close
  \/ StepServer
  \/ StepNotMapping
  \/ Finish
SpecSession == Init /\ [][NextSession]_vars

\* The server scenarios: clients connect, send messages and disconnect;
\* the server handles one message at a time.
Sent == conn["c1"].sent + conn["c2"].sent
NextServer ==
  \/ \E c \in Conns, welcome \in {"ok", "closed_first", "closed_second"} :
       Connect(c, welcome)
  \/ Sent < MaxMessages /\ \E c \in Conns, message \in ClientMessages :
       ClientSend(c, message)
  \/ \E c \in Conns : Disconnect(c)
  \/ \E c \in Conns : handle_message(c)
  \/ \E c \in Conns : handle_script_message(c)
  \/ StepServer
  \/ StepNotMapping
  \/ Finish
SpecServer == Init /\ [][NextServer]_vars

\* ================================================================ claims
Reported == pc \in {"running", "returned"}
\* The ActionResult of the step processed last.
LastResult == results.actions[Len(results.actions)]
AfterStep ==
  Reported /\ index >= 1 /\ Len(results.actions) = index /\ action.type # None
Successes(actions) == Cardinality({k \in 1..Len(actions) : actions[k].success})

\* C1: every call of execute_script, by the method or by the helper,
\* returns a report: no exception reaches the caller.
C1_NoExceptionPropagates == pc # "raised"

\* C2: the report holds exactly one ActionResult per step the loop
\* processed, in script order (the k-th has index k), each with end_time
\* set.  The entry that is not a mapping, which ends the run in the outer
\* except clause, is fetched by the loop but never becomes a step.
C2_OneResultPerStep ==
  Reported =>
    /\ Len(results.actions) = IF results.error # None THEN index - 1 ELSE index
    /\ \A k \in 1..Len(results.actions) :
         results.actions[k].index = k /\ results.actions[k].end_time # None

\* C2 witness: a returned report of a run that a failed second step
\* stopped, after a successful first step.
C2_Witness ==
  /\ pc = "returned" /\ stop /\ Len(results.actions) = 2
  /\ results.actions[1].success /\ ~results.actions[2].success
  /\ results.actions[2].error # None

\* C3: once a step with continue_on_error = false has failed (its
\* ActionResult has success = false), the loop processes no later action,
\* and executed_actions is the number of successful steps before it.
C3_FailedStepStopsRun ==
  (AfterStep /\ pc = "running" /\ action.continue_on_error = "False"
     /\ ~LastResult.success) =>
    /\ ~InLoop
    /\ results.executed_actions = Successes(results.actions)

C5_ExecutedCountsSuccesses ==
  Reported => results.executed_actions = Successes(results.actions)

\* The execute_in_frame action processed last had a frame to enter and
\* nested actions to run.
FrameStep ==
  /\ AfterStep /\ action.type = "execute_in_frame"
  /\ action.frame_locator # None /\ action.actions # <<>>

Raises(a) ==
  LET handler == _get_action_handler(a.type) IN
  handler # None /\ call_handler(handler, a, 0).kind = "raise"

\* The frame of the execute_in_frame step processed last was entered, its
\* first nested action did not raise and its second did.
SecondNestedRaised ==
  /\ FrameStep /\ action.frame_locator = "index" /\ action.out = "ok"
  /\ Len(action.actions) >= 2
  /\ ~Raises(action.actions[1]) /\ Raises(action.actions[2])

\* C7: when the second nested action raises, no later nested action is
\* run, the frame step's ActionResult has success = false and carries
\* that error, exactly one errors entry is added for the step, and unless
\* continue_on_error is false the loop goes on to the next action.
C7_SecondNestedRaises ==
  SecondNestedRaised =>
    /\ \A k \in 1..Len(outcome.log) :
         outcome.log[k].op = "handler" => outcome.log[k].loc <= 2
    /\ ~LastResult.success
    /\ LastResult.error =
         call_handler(_get_action_handler(action.actions[2].type),
                      action.actions[2], 0).err
    /\ Cardinality({k \in 1..Len(results.errors) :
                      results.errors[k].action_index = index}) = 1
    /\ results.errors[Len(results.errors)].action_index = index
    /\ Len(results.errors) + results.executed_actions = index
    /\ (action.continue_on_error # "False" => ~stop)
    /\ (action.continue_on_error # "False" /\ index < total /\ pc = "running"
          => InLoop)

\* C7 witness: three nested actions, the second raised, and the next
\* top-level action is about to be processed.
C7_Witness ==
  /\ SecondNestedRaised /\ Len(action.actions) = 3
  /\ Raises(action.actions[3]) = FALSE
  /\ action.continue_on_error = Unset /\ InLoop

\* The first locator of the list whose wait condition the backend
\* satisfies, 0 if there is none.
FirstSatisfied(locators) ==
  IF \E k \in 1..Len(locators) : locators[k].cond = "ok"
  THEN CHOOSE k \in 1..Len(locators) :
         locators[k].cond = "ok" /\ \A j \in 1..(k - 1) : locators[j].cond # "ok"
  ELSE 0

\* The locators the handler waited for, in the order of the calls.
WaitOps == {"wait_visible", "wait_condition", "wait_clickable", "wait_invisible"}
RECURSIVE Waited(_)
Waited(log) ==
  IF log = <<>> THEN <<>>
  ELSE IF Head(log).op \in WaitOps THEN <<Head(log).loc>> \o Waited(Tail(log))
  ELSE Waited(Tail(log))

\* The handlers that resolve through the fallback chain.
ChainTypes == {"input", "hover", "select", "wait_for_element",
               "wait_for_element_clickable", "click"}

\* C8: when locator i is the first whose wait condition is satisfied, the
\* resolver waits for locators 1..i in list order, the element it returns
\* or acts on is the one found through locator i, and it makes no backend
\* call for a locator after i.
C8_FirstSatisfiedLocatorWins ==
  (pc = "applied" /\ action.type \in ChainTypes /\ action.params_ok
     /\ FirstSatisfied(action.locators) # 0) =>
    LET i == FirstSatisfied(action.locators) IN
    /\ Waited(outcome.log) = [k \in 1..i |-> k]
    /\ \A k \in 1..Len(outcome.log) : outcome.log[k].loc <= i
    /\ (outcome.kind = "return" => outcome.via = i)

\* C9: every strategy name of the Locator enumeration, in any letter case,
\* selects the same strategy in _find_element, in _find_element_with_wait
\* and in the click handler, and an entry with such a name is not passed
\* over: when the handler reports not-found it has waited for every entry.
C9_StrategyNamesRecognised ==
  (pc = "applied" /\ action.type \in ChainTypes) =>
    /\ \A k \in 1..Len(action.locators) :
         LET n == action.locators[k].name IN
         n \in LocatorEnumAnyCase =>
           /\ find_element_by(n) # None
           /\ find_element_by(n) = _get_by_from_string(n)
           /\ find_element_by(n) = click_locator_type(n)
    /\ ((\A k \in 1..Len(action.locators) :
           action.locators[k].name \in LocatorEnumAnyCase)
        /\ outcome.kind = "raise" /\ outcome.err = NotFound
          => Waited(outcome.log) = [k \in 1..Len(action.locators) |-> k])

\* C10: a handler that resolves its element from locators fails with a
\* parameter error, and makes no backend call, when the list is empty.
C10_NoLocatorsIsParameterError ==
  (pc = "applied" /\ action.locators = <<>> /\ action.params_ok
     /\ action.type \in {"input", "select", "hover", "wait_for_element",
                         "wait_for_element_clickable",
                         "wait_for_element_invisible"}) =>
    /\ outcome.kind = "raise"
    /\ outcome.err = ParameterError
    /\ outcome.log = <<>>

\* C11: start_driver on an executor that holds a live session starts no
\* second one, so that after any sequence of start_driver, execute_script
\* and close calls at most one backend session is live.
C11_AtMostOneLiveSession == Cardinality(sessions) <= 1

\* C12: close never raises and leaves the handle unset, whether the
\* executor was never started, holds a session or is closed already, and
\* also when quit raises; the second of two closes in a row makes no
\* backend call.
C12_CloseIdempotent ==
  caller = "close" =>
    /\ driver = None
    /\ closes # <<>>
    /\ \A k \in 1..Len(closes) : ~closes[k].raised
    /\ (Len(closes) = 2 => ~closes[2].quit)

\* C12 witness: two closes in a row on an executor that held a session;
\* the quit call of the first raised, the second made no backend call.
C12_Witness ==
  /\ caller = "close" /\ Len(closes) = 2
  /\ "quit_raised" \in DOMAIN closes[1] /\ closes[1].quit_raised
  /\ ~closes[2].quit /\ driver = None

\* The entry points that wrap a script run.
Wrappers == {"helper", "handle_automation_script"}

\* C13: whenever a wrapper of a script run (the helper,
\* handle_automation_script) is left, by a return or by an exception, from
\* a completed run, a failed start_driver or an execute_script that
\* raised, close has run, the executor holds no handle and neither the
\* session of the run nor a new one is live; the response of
\* handle_automation_script exists only in such a state, so the close
\* precedes its sending.
C13_WrapperCloses ==
  [][(caller' \in Wrappers /\ pc' # "running") =>
       /\ closes' # <<>>
       /\ driver' = None
       /\ sessions' \subseteq sessions
       /\ driver \notin sessions']_vars

\* C13 witness: handle_automation_script returned the response of a run
\* that executed a step, and the session of the run was quit.
C13_Witness ==
  /\ caller = "handle_automation_script" /\ pc = "returned"
  /\ response.type = "automation_response" /\ Len(results.actions) >= 1
  /\ closes # <<>> /\ closes[1].quit /\ driver = None /\ sessions = {}

\* The backend calls of a log that are the operation op.
CallsOf(log, op) == {k \in 1..Len(log) : log[k].op = op}

C15_SelectWithoutCriterion ==
  (pc = "applied" /\ action.type = "select" /\ ~action.params_ok) =>
    /\ outcome.kind = "raise"
    /\ outcome.err = ParameterError
    /\ outcome.log = <<>>

\* The positions of the welcome messages among those sent on connection c.
Welcomes(c) ==
  {k \in 1..Len(conn[c].outbox) :
     conn[c].outbox[k].type = "connection_established"}

\* C16: on a connection whose handler reached the message loop exactly one
\* connection_established message was sent, and it is the first message;
\* the first answer to a ping is then the second message.
C16_OneWelcomeFirst ==
  \A c \in Conns : conn[c].handler = "loop" => Welcomes(c) = {1}

\* In this step the server takes the message at the head of c's queue.
Takes(c) ==
  conn[c].inbox # <<>> /\ conn'[c].inbox = Tail(conn[c].inbox)

\* In this step exactly one message is sent on c, after those sent before.
SendsOne(c) ==
  /\ Len(conn'[c].outbox) = Len(conn[c].outbox) + 1
  /\ SubSeq(conn'[c].outbox, 1, Len(conn[c].outbox)) = conn[c].outbox

\* The message sent last on c after this step.
LastSent(c) == conn'[c].outbox[Len(conn'[c].outbox)]

\* C17: the step that takes a ping from an open connection sends exactly
\* one message, on that connection alone: a pong whose timestamp is the
\* ping's.  Responses keep the order of the requests: what was sent stays
\* as it is, each response is added at the end, and no message is taken
\* while the response to a script request is outstanding.
C17_PingAnsweredInOrder ==
  [][\A c \in Conns :
       /\ (Takes(c) /\ Head(conn[c].inbox).valid
             /\ Head(conn[c].inbox).type = "ping") =>
            /\ SendsOne(c)
            /\ LastSent(c).type = "pong"
            /\ int(LastSent(c).timestamp) = int(Head(conn[c].inbox).timestamp)
            /\ \A d \in Conns \ {c} : conn'[d].outbox = conn[d].outbox
       /\ (conn[c].handler = "loop" /\ conn'[c].handler = "loop") =>
            \/ conn'[c].outbox = conn[c].outbox
            \/ SendsOne(c)
       /\ serving # "none" => ~Takes(c)]_vars

\* C17 witness: two pings with different timestamps were answered on one
\* connection, in their order.
C17_Witness ==
  \E c \in Conns :
    /\ conn[c].handler = "loop" /\ Len(conn[c].outbox) = 4
    /\ conn[c].outbox[3].type = "pong" /\ conn[c].outbox[4].type = "pong"
    /\ int(conn[c].outbox[3].timestamp) = 7
    /\ int(conn[c].outbox[4].timestamp) = server_time

\* In this step the server finishes with an automation_script request of
\* c: the request is taken and does not start a run, or its run ends.
ScriptDone(c) ==
  \/ /\ Takes(c) /\ Head(conn[c].inbox).valid
     /\ Head(conn[c].inbox).type = "automation_script"
     /\ serving' = "none"
  \/ serving = c /\ serving' = "none"

\* C18: the step that finishes with an automation_script request sends
\* exactly one message, an automation_response.  For a run that returned,
\* its status is 'success' iff the report's success is true, and its
\* details, parsed back, give the report's executed_actions, total_actions
\* and number of errors; for a run that raised, the status is 'error',
\* executed_actions is 0 and total_actions is the script's action count.
C18_ScriptAnswered ==
  [][\A c \in Conns :
       ScriptDone(c) =>
         /\ SendsOne(c)
         /\ LastSent(c).type = "automation_response"
         /\ LastSent(c).ran = "returned" =>
              /\ LastSent(c).status = "success" <=> results'.success
              /\ int(LastSent(c).details.executed_actions)
                   = results'.executed_actions
              /\ int(LastSent(c).details.total_actions) = results'.total_actions
              /\ Len(LastSent(c).details.errors) = Len(results'.errors)
         /\ LastSent(c).ran = "raised" =>
              /\ LastSent(c).status = "error"
              /\ int(LastSent(c).details.executed_actions) = 0
              /\ int(LastSent(c).details.total_actions)
                   = Head(conn[c].inbox).n]_vars

\* C19: every report execute_script returns has end_time and
\* completion_percentage set, the latter being executed_actions /
\* total_actions x 100, or 100 for a script without actions.
C19_ReportIsComplete ==
  pc = "returned" =>
    /\ results.end_time # None
    /\ results.completion_percentage =
         IF results.total_actions > 0
         THEN <<results.executed_actions * 100, results.total_actions>>
         ELSE <<100, 1>>

\* C20: when an exception escapes the per-step handling, the report
\* returned has success = false and an error field, and the ActionResults,
\* the errors, the screenshots and executed_actions are those the earlier
\* steps had accumulated.
C20_PartialResultsKept ==
  [][(pc = "running" /\ pc' = "returned" /\ results'.error # None) =>
       /\ ~results'.success
       /\ results'.actions = results.actions
       /\ results'.errors = results.errors
       /\ results'.screenshots = results.screenshots
       /\ results'.executed_actions = results.executed_actions
       /\ results'.total_actions = results.total_actions]_vars

\* C20 witness: the report of a run that an entry that is not a mapping
\* ended after a failed step, with the step's ActionResult, errors entry
\* and error screenshot.
C20_Witness ==
  /\ pc = "returned" /\ results.error # None /\ ~results.success
  /\ Len(results.actions) = 1 /\ Len(results.errors) = 1
  /\ results.screenshots # {} /\ index = 2

\* The steps recorded with an error, and the steps the errors list names.
FailedSteps == {k \in 1..Len(results.actions) : results.actions[k].error # None}
ErrorSteps == {results.errors[j].action_index : j \in 1..Len(results.errors)}

\* C21: when the handler of a step (or its lookup) raises, the step's
\* ActionResult has success = false and the error, and exactly one errors
\* entry, the last, carries the step's 1-based index and the same error.
\* At every point the errors entries are, in the same order and one for
\* one, the ActionResults with an error.
C21_OneErrorPerFailure ==
  Reported =>
    /\ ErrorSteps = FailedSteps
    /\ Cardinality(FailedSteps) = Len(results.errors)
    /\ \A j \in 1..Len(results.errors) :
         /\ j > 1 => results.errors[j - 1].action_index
                       < results.errors[j].action_index
         /\ results.errors[j].error
              = results.actions[results.errors[j].action_index].error
         /\ ~results.actions[results.errors[j].action_index].success
    /\ (Len(results.actions) = index /\ index >= 1 /\ outcome.kind = "raise") =>
         /\ ~LastResult.success /\ LastResult.error = outcome.err
         /\ results.errors # <<>>
         /\ results.errors[Len(results.errors)].action_index = index
         /\ results.errors[Len(results.errors)].error = outcome.err

\* C21 witness: a returned report whose second step failed after a
\* successful first one; its only errors entry names step 2.
C21_Witness ==
  /\ pc = "returned" /\ results.error = None /\ Len(results.actions) = 2
  /\ results.actions[1].success /\ results.actions[1].error = None
  /\ Len(results.errors) = 1 /\ results.errors[1].action_index = 2
  /\ results.errors[1].error = results.actions[2].error
  /\ outcome.kind = "raise"

\* C22: after a failed step whose continue_on_error is absent, or any
\* value but the literal False, the loop is not left: while the script
\* has a next action, it is processed next.
C22_DefaultContinues ==
  (AfterStep /\ pc = "running" /\ ~LastResult.success
     /\ action.continue_on_error # "False") =>
    /\ ~stop
    /\ (index < total => InLoop)

\* C22 witness: the first step raised, its continue_on_error is a falsy
\* value other than False, and the second action is about to be processed.
C22_Witness ==
  /\ AfterStep /\ pc = "running" /\ index = 1 /\ total = 2
  /\ outcome.kind = "raise" /\ LastResult.error # None
  /\ action.continue_on_error = "0" /\ InLoop

\* C23: the step of a top-level action whose type has no handler (a
\* missing type included) adds one ActionResult with success = false and
\* the error, adds one errors entry for its index, leaves executed_actions
\* as it is and makes no backend call in a handler; the loop goes on
\* unless the action's continue_on_error is False.
C23_UnknownTypeFailsStepOnly ==
  [][(pc = "running" /\ pc' = "running" /\ index' = index + 1
        /\ _get_action_handler(action'.type) = None) =>
       /\ Len(results'.actions) = Len(results.actions) + 1
       /\ ~results'.actions[Len(results'.actions)].success
       /\ results'.actions[Len(results'.actions)].error = NoHandler
       /\ results'.actions[Len(results'.actions)].index = index'
       /\ Len(results'.errors) = Len(results.errors) + 1
       /\ results'.errors[Len(results'.errors)].action_index = index'
       /\ results'.errors[Len(results'.errors)].error = NoHandler
       /\ results'.executed_actions = results.executed_actions
       /\ outcome'.log = <<>>
       /\ frame' = frame
       /\ stop' <=> action'.continue_on_error = "False"
       /\ (~stop' /\ index' < total) => InLoop']_vars

\* C23 witness: the first action had no type and failed, and the second
\* action was processed after it.
C23_Witness ==
  /\ Reported /\ Len(results.actions) = 2 /\ index = 2
  /\ results.actions[1].type = None /\ results.actions[1].error = NoHandler
  /\ results.actions[2].success /\ results.executed_actions = 1

\* The action with the other outcome of the screenshot capture.
OtherCapture(a) ==
  [a EXCEPT !.shot_out = IF @ = "ok" THEN "error" ELSE "ok"]

\* C24: a step's success flag and error, executed_actions, the errors
\* list and the decision to stop are what they would be had the
\* screenshot capture of the step ended the other way (succeeded instead
\* of raised, raised instead of succeeded).
C24_CaptureNeverDecides ==
  [][(pc = "running" /\ pc' = "running" /\ index' = index + 1) =>
       LET twin == OtherCapture(action')
           o == dispatch(twin, frame)
           r == action_result_of(index', twin, o)
           last == results'.actions[Len(results'.actions)] IN
       /\ r.success = last.success
       /\ r.error = last.error
       /\ r.index = last.index /\ r.type = last.type
       /\ executed_after(results.executed_actions, o) = results'.executed_actions
       /\ errors_after(results.errors, index', twin, o) = results'.errors
       /\ should_break(twin, o) = stop']_vars

\* C24 witness: a successful first step that asked for a screenshot whose
\* capture raised, followed by a failed step whose error screenshot
\* raised too.
C24_Witness ==
  /\ Reported /\ index = 2 /\ Len(results.actions) = 2
  /\ results.actions[1].success /\ results.actions[1].screenshot = <<>>
  /\ results.executed_actions = 1 /\ results.screenshots = {}
  /\ action.shot_out = "error" /\ outcome.kind = "raise"
  /\ LastResult.error # None /\ LastResult.screenshot = <<>>

\* C25: the report of a script without actions has total_actions = 0,
\* executed_actions = 0, no ActionResult, completion_percentage = 100 and
\* success = true; its run fetches no entry and calls no handler.
C25_EmptyScript ==
  (Reported /\ total = 0) =>
    /\ index = 0 /\ ~InLoop /\ outcome = NoOutcome
    /\ results.total_actions = 0 /\ results.executed_actions = 0
    /\ results.actions = <<>> /\ results.errors = <<>>
    /\ pc = "returned" =>
         /\ results.success
         /\ results.completion_percentage = <<100, 1>>

\* C25 witness: the report of a script without actions, returned through
\* the helper.
C25_Witness ==
  /\ pc = "returned" /\ total = 0 /\ caller = "helper"
  /\ results.success /\ results.completion_percentage = <<100, 1>>

\* C26: every processed step either incremented executed_actions or added
\* one errors entry: executed_actions + Len(errors) = Len(actions) <=
\* total_actions, hence executed_actions <= total_actions.
C26_StepsAreCountedOnce ==
  Reported =>
    /\ results.executed_actions + Len(results.errors) = Len(results.actions)
    /\ Len(results.actions) <= results.total_actions
    /\ results.executed_actions <= results.total_actions

\* C26 witness: a report of two steps, one counted in executed_actions
\* though its handler returned a falsy value, the other in errors.
C26_Witness ==
  /\ pc = "returned" /\ Len(results.actions) = 2
  /\ results.executed_actions = 1 /\ Len(results.errors) = 1
  /\ \E k \in 1..2 : ~results.actions[k].success /\ results.actions[k].error = None

\* C27 as stated: a returned report with fewer ActionResults than
\* total_actions ends with a failed step whose continue_on_error is False.
C27_OnlyFailedStepStopsEarly ==
  (pc = "returned" /\ Len(results.actions) < results.total_actions) =>
    /\ results.actions # <<>>
    /\ ~LastResult.success /\ LastResult.error # None
    /\ action.continue_on_error = "False"

\* C27 amended: a returned report with fewer ActionResults than
\* total_actions either is the report of a whole-script failure (it has
\* an error field) or ends with a failed step whose continue_on_error is
\* False.
C27_EarlyStopOrScriptFailure ==
  (pc = "returned" /\ Len(results.actions) < results.total_actions) =>
    \/ results.error # None /\ ~results.success
    \/ /\ results.error = None /\ stop
       /\ results.actions # <<>>
       /\ ~LastResult.success /\ LastResult.error # None
       /\ action.continue_on_error = "False"

\* C27 witness: a run of two actions stopped by its first step.
C27_Witness ==
  /\ pc = "returned" /\ results.error = None /\ results.total_actions = 2
  /\ Len(results.actions) = 1 /\ ~LastResult.success
  /\ action.continue_on_error = "False"

\* The frame of the execute_in_frame step processed last was entered and
\* the first nested action that does not simply succeed is one whose type
\* has no handler.
NestedUnknownKind ==
  /\ FrameStep /\ action.frame_locator = "index" /\ action.out = "ok"
  /\ \E k \in 1..Len(action.actions) :
       /\ _get_action_handler(action.actions[k].type) = None
       /\ \A j \in 1..(k - 1) : ~Raises(action.actions[j])

\* C28: a nested action of unknown kind is a handling error as at top
\* level: the frame step's ActionResult has success = false with the
\* no-handler error, and the step is recorded in errors.
C28_NestedUnknownKindFails ==
  NestedUnknownKind =>
    /\ ~LastResult.success
    /\ LastResult.error = NoHandler
    /\ results.errors # <<>>
    /\ results.errors[Len(results.errors)].action_index = index

\* C29: an execute_in_frame step whose frame_locator is an element
\* locator of a frame element that exists and is visible enters the frame
\* and runs its nested actions in it.
C29_ElementLocatorEntersFrame ==
  (FrameStep /\ action.frame_locator = "element" /\ action.out = "ok") =>
    /\ outcome.kind = "return"
    /\ CallsOf(outcome.log, "switch_to_frame") # {}
    /\ Cardinality(CallsOf(outcome.log, "handler")) = Len(action.actions)

\* C30: when switch_to_window with target 'new' returns true, the window
\* it switched to was not among the windows listed when the handler was
\* called, however many were open.
C30_SwitchesToNewWindow ==
  (pc = "applied" /\ action.type = "switch_to_window" /\ action.target = "new"
     /\ outcome.kind = "return" /\ outcome.value = "True") =>
    /\ Cardinality(CallsOf(outcome.log, "switch_to_window")) = 1
    /\ \A k \in CallsOf(outcome.log, "switch_to_window") :
         \A w \in 1..action.windows :
           outcome.log[k].by # window_handles(action.windows)[w]

\* C31: executions of automation_script requests never share a session.
\* A request that starts a run does so when no other run is in progress,
\* on an executor of its own (default content, new results) whose session
\* is one that was not live; the session is the run's until the run ends;
\* the sessions live at any time are the session of the run in progress.
C31_SessionsNotShared ==
  [][/\ (serving' # serving /\ serving' # "none") =>
          /\ serving = "none"
          /\ driver' # None /\ driver' \notin sessions
          /\ sessions' = sessions \cup {driver'}
          /\ frame' = 0 /\ index' = 0 /\ results' = new_results(total')
     /\ (serving # "none" /\ serving' = serving) =>
          /\ driver' = driver
          /\ sessions' = sessions
     /\ serving' = "none" => sessions' = {}
     /\ serving' # "none" => sessions' = {driver'}]_vars

\* C31 witness: the run of a request of one connection is in progress
\* after the run of a request of the other connection was answered.
C31_Witness ==
  \E c, d \in Conns :
    /\ c # d /\ serving = d /\ pc = "running" /\ sessions = {driver}
    /\ \E k \in 1..Len(conn[c].outbox) :
         conn[c].outbox[k].type = "automation_response"

\* Connection d has an automation_script request waiting to be taken.
ScriptWaiting(d) ==
  /\ conn[d].handler = "loop" /\ conn[d].inbox # <<>>
  /\ Head(conn[d].inbox).valid
  /\ Head(conn[d].inbox).type = "automation_script"

\* C32: requests of two connections can be executing at the same time:
\* while the run of one connection's request is in progress, the server
\* can take the request waiting on another connection and start its run.
C32_RequestsRunTogether ==
  \A c, d \in Conns :
    (c # d /\ serving = c /\ pc = "running" /\ ScriptWaiting(d)) =>
      ENABLED handle_script_message(d)

\* C33: wait_for_element_invisible consults the first locator only: every
\* backend call it makes is for locator 1, and when the wait on it times
\* out the action fails with the timeout, whatever the later locators
\* would give.
C33_InvisibleFirstLocatorOnly ==
  (pc = "applied" /\ action.type = "wait_for_element_invisible") =>
    /\ \A k \in 1..Len(outcome.log) : outcome.log[k].loc = 1
    /\ Len(outcome.log) <= 1
    /\ outcome.kind = "return" => outcome.via = 1
    /\ (action.locators # <<>>
          /\ _get_by_from_string(action.locators[1].name) # None
          /\ action.locators[1].cond = "timeout") =>
         outcome.kind = "raise" /\ outcome.err = Timeout

\* C33 witness: the wait on the first locator timed out while the second
\* locator's condition would have held.
C33_Witness ==
  /\ pc = "applied" /\ action.type = "wait_for_element_invisible"
  /\ Len(action.locators) = 2
  /\ action.locators[1].cond = "timeout" /\ action.locators[2].cond = "ok"
  /\ _get_by_from_string(action.locators[2].name) # None
  /\ outcome.kind = "raise" /\ outcome.err = Timeout /\ Len(outcome.log) = 1

\* C34: no step fails silently: every ActionResult with success = false
\* has an error and an errors entry for its index, and a report with
\* success = true holds successful ActionResults only.
C34_NoSilentFailure ==
  Reported =>
    /\ \A k \in 1..Len(results.actions) :
         ~results.actions[k].success =>
           results.actions[k].error # None /\ k \in ErrorSteps
    /\ (pc = "returned" /\ results.success) =>
         \A k \in 1..Len(results.actions) : results.actions[k].success

\* C35: an execute_in_frame step whose frame was entered and whose nested
\* actions all succeeded, and a wait_for_jquery step whose waits were
\* satisfied, are recorded with success = true.
C35_CompletedStepSucceeds ==
  (AfterStep /\ outcome.kind = "return"
     /\ \/ FrameStep
        \/ action.type = "wait_for_jquery") =>
    LastResult.success

\* C36: when the first nested action of an execute_in_frame step is an
\* execute_in_frame action itself, the nested actions after it are called
\* in the frame context in which it was called, the enclosing frame.
C36_NestedFramesBalanced ==
  (FrameStep /\ Len(action.actions) >= 2
     /\ action.actions[1].type = "execute_in_frame"
     /\ Len(action.actions[1].actions) = 1) =>
    \A j, k \in CallsOf(outcome.log, "handler") :
      (outcome.log[j].loc = 1 /\ outcome.log[j].by = "_handle_execute_in_frame"
         /\ outcome.log[k].loc >= 2) =>
        outcome.log[k].frame = outcome.log[j].frame

\* C37: a start_driver call that creates a session adds at most one
\* headless argument to the executor's options, and the session runs
\* headless exactly when the call was made with headless = true (the call
\* added the argument).
C37_HeadlessOnlyForItsStart ==
  [][(caller' = "start_driver" /\ sessions' # sessions) =>
       /\ chrome_options' <= chrome_options + 1
       /\ headless_session' <=> chrome_options' > chrome_options]_vars

\* C38: a connection whose handler has finished is not in the registry.
C38_RegistryHoldsLiveConnections ==
  \A c \in Conns : conn[c].handler = "done" => c \notin clients

\* The types of the response to a message.
ResponseTypes(message) ==
  CASE ~message.valid -> {"error"}
    [] message.type = "chrome_integration" -> {"chrome_response"}
    [] message.type = "ping" -> {"pong"}
    [] message.type = "automation_script" -> {"automation_response", "error"}
    [] OTHER -> {"error"}

\* C39: the step that finishes with a message of an open connection sends
\* exactly one message on it, of the type that answers the message (an
\* error message for an unknown type, for text that is not JSON and for an
\* exception of the handling), and leaves the connection open.
C39_EveryMessageAnswered ==
  [][\A c \in Conns :
       /\ (Takes(c) /\ serving' = "none") =>
            /\ SendsOne(c)
            /\ LastSent(c).type \in ResponseTypes(Head(conn[c].inbox))
            /\ conn'[c].handler = "loop" /\ conn'[c].client = "open"
       /\ (serving = c /\ serving' = "none") =>
            /\ SendsOne(c)
            /\ LastSent(c).type \in {"automation_response", "error"}
            /\ conn'[c].handler = "loop" /\ conn'[c].client = "open"]_vars
====
